---- MODULE Spec2Model ----
(***************************************************************************)
(* Model of the self-tuning loop of the Toto prediction system:            *)
(*   main_loop.py  TotoLearningSystem  (run loop, processed-date set)      *)
(*   evaluate.py   TotoEvaluator       (hit statistics, evaluation file)   *)
(*   learn.py      TotoLearner         (effectiveness, weight update)      *)
(*   features.py   TotoFeatures        (the three features the learner     *)
(*                                      reads)                             *)
(*                                                                         *)
(* Floats are fixed-point integers in units of 1/Scale, every operation    *)
(* rounded to the nearest unit.  The average hit count is kept as the      *)
(* exact fraction num/den.                                                 *)
(***************************************************************************)
EXTENDS Integers, Sequences, FiniteSets, TLC

\* ------------------------------------------------------------- bounds
\* Rows the draw-history file may hold (add_actual_result appends).
MaxCsvRows == 3
\* Cycles of process_single_draw one behaviour may start.
MaxCycles == 3
\* Re-constructions of TotoLearningSystem (process restarts).
MaxRestarts == 1
\* Writes of a persisted file that may fail in one behaviour.
MaxWriteFailures == 1
\* Direct calls of the learner's methods in SpecLearn.
MaxLearnCalls == 3
\* Direct calls of evaluate_predictions in SpecEval.
MaxEvalCalls == 2

\* --------------------------------------------------- fixed-point floats
Scale == 100 * 100

Max2(a, b) == IF a >= b THEN a ELSE b
Min2(a, b) == IF a <= b THEN a ELSE b
Abs(a) == IF a >= 0 THEN a ELSE -a

\* a / b rounded to the nearest integer (b > 0).
FDiv(a, b) == IF a >= 0 THEN (2 * a + b) \div (2 * b)
                        ELSE -((2 * (-a) + b) \div (2 * b))

RECURSIVE SumSeq(_)
SumSeq(s) == IF s = <<>> THEN 0 ELSE Head(s) + SumSeq(Tail(s))

RECURSIVE SumOver(_, _)
\* sum of f[x] over the finite set S
SumOver(f, S) == IF S = {} THEN 0
                 ELSE LET x == CHOOSE y \in S : TRUE
                      IN f[x] + SumOver(f, S \ {x})

SeqToSet(s) == {s[i] : i \in 1..Len(s)}

RECURSIVE Insert(_, _)
Insert(x, s) == IF s = <<>> THEN <<x>>
                ELSE IF x <= Head(s) THEN <<x>> \o s
                ELSE <<Head(s)>> \o Insert(x, Tail(s))

RECURSIVE sorted(_)
\* Python's sorted() on a list of integers
sorted(s) == IF s = <<>> THEN <<>> ELSE Insert(Head(s), sorted(Tail(s)))

\* a dict as a function; dict[k] = v
EmptyDict == [k \in {} |-> 0]
DictPut(m, k, v) == [x \in (DOMAIN m) \cup {k} |-> IF x = k THEN v ELSE m[x]]

\* ------------------------------------------------------------ evaluate.py
\* Largest hit count of the histogram (evaluate.py:63: keys 0..6).
MaxHits == 6

\* json.dump followed by json.load of one EvaluationResult: the integer keys
\* 0..6 of hit_distribution are written as the strings "0".."6"; strings,
\* lists, integers and floats come back as they were.
JsonEvaluation(e) ==
    [e EXCEPT !.summary.hit_distribution.keys = "str"]

\* json.dump + json.load of the whole result map (keys are draw-date strings)
JsonResults(m) == [d \in DOMAIN m |-> JsonEvaluation(m[d])]

\* A faulty annotation: numbers count as hits only where the two sorted
\* lists agree position by position.
PredictionEvalPositional(i, pred, actual_sorted) ==
    LET sorted_numbers == sorted(pred.numbers)
        P == SeqToSet(sorted_numbers)
        A == SeqToSet(actual_sorted)
        H == {sorted_numbers[j] : j \in {k \in 1..Len(sorted_numbers) :
                  k <= Len(actual_sorted) /\ sorted_numbers[k] = actual_sorted[k]}}
    IN [index |-> i + 1,
        predicted_numbers |-> sorted_numbers,
        confidence_score |-> pred.score,
        hit_count |-> Cardinality(H),
        hit_numbers |-> H,
        missed_numbers |-> A \ H,
        extra_numbers |-> P \ H]

\* evaluate.py:72-83: one prediction's annotation.  list(set(..)) keeps the
\* elements and no order, so the three number lists are kept as sets.
PredictionEval(i, pred, actual_sorted) ==
    LET sorted_numbers == sorted(pred.numbers)
        P == SeqToSet(sorted_numbers)
        A == SeqToSet(actual_sorted)
    IN [index |-> i + 1,
        predicted_numbers |-> sorted_numbers,
        confidence_score |-> pred.score,
        hit_count |-> Cardinality(P \cap A),
        hit_numbers |-> P \cap A,
        missed_numbers |-> A \ P,
        extra_numbers |-> P \ A]

\* evaluate.py:54-65: the evaluation before the loop
InitialEvaluation(draw_date, predictions, actual_sorted) ==
    [draw_date |-> draw_date,
     actual_result |-> actual_sorted,
     total_predictions |-> Len(predictions),
     predictions |-> <<>>,
     summary |-> [best_hit_count |-> 0,
                  best_prediction_index |-> -1,
                  average_hit_count |-> [num |-> 0, den |-> 1],
                  hit_distribution |->
                      [keys |-> "int", counts |-> [h \in 0..MaxHits |-> 0]]]]

\* evaluate.py:67-91: the loop state after the first n predictions
RECURSIVE EvalLoop(_, _, _, _)
EvalLoop(draw_date, predictions, actual_sorted, n) ==
    IF n = 0
    THEN [evaluation |-> InitialEvaluation(draw_date, predictions, actual_sorted),
          total_hits |-> 0, best_hits |-> 0, best_index |-> -1]
    ELSE LET st == EvalLoop(draw_date, predictions, actual_sorted, n - 1)
             i == n - 1
             pe == PredictionEval(i, predictions[n], actual_sorted)
             hits == pe.hit_count
             better == hits > st.best_hits
         IN [evaluation |->
                 [st.evaluation EXCEPT
                     !.predictions = Append(@, pe),
                     !.summary.hit_distribution.counts[hits] = @ + 1],
             total_hits |-> st.total_hits + hits,
             best_hits |-> IF better THEN hits ELSE st.best_hits,
             best_index |-> IF better THEN i ELSE st.best_index]

\* A faulty evaluator: an empty batch is evaluated like any other.
EvaluateAcceptsEmpty(predictions) == FALSE

\* evaluate.py:95 divides by len(predictions): ZeroDivisionError on an empty
\* batch, raised before self.results is assigned.
EvaluateRaises(predictions) == Len(predictions) = 0

\* A faulty summary: the total of the hits is divided by the size of the
\* histogram instead of the number of predictions.
BuildEvaluationFixedCount(draw_date, predictions, actual_result) ==
    LET actual_sorted == sorted(actual_result)
        st == EvalLoop(draw_date, predictions, actual_sorted, Len(predictions))
    IN [st.evaluation EXCEPT
           !.summary.best_hit_count = st.best_hits,
           !.summary.best_prediction_index = st.best_index + 1,
           !.summary.average_hit_count =
               [num |-> st.total_hits, den |-> MaxHits + 1]]

\* evaluate.py:53-95: the EvaluationResult of a non-empty batch
BuildEvaluation(draw_date, predictions, actual_result) ==
    LET actual_sorted == sorted(actual_result)
        st == EvalLoop(draw_date, predictions, actual_sorted, Len(predictions))
    IN [st.evaluation EXCEPT
           !.summary.best_hit_count = st.best_hits,
           !.summary.best_prediction_index = st.best_index + 1,
           !.summary.average_hit_count =
               [num |-> st.total_hits, den |-> Len(predictions)]]

\* evaluate.py:98: self.results[draw_date] = evaluation
StoreEvaluation(results, draw_date, evaluation) ==
    DictPut(results, draw_date, evaluation)

\* evaluate.py:30-38: the evaluation file after save_evaluation_results; a
\* failing write is caught and printed, and leaves the file as it was.
SaveEvaluationResults(file, results, ok) ==
    IF ok THEN [exists |-> TRUE, malformed |-> FALSE, doc |-> JsonResults(results)] ELSE file

\* evaluate.py:17-28: a missing file and one that cannot be parsed give the
\* empty map
LoadEvaluationResults(file) ==
    IF file.exists /\ ~file.malformed THEN file.doc ELSE EmptyDict

\* ------------------------------------------------------------ features.py
\* A draw-history file is a sequence of rows [date, numbers]; `data` below is
\* the rows TotoFeatures.load_data read when the predictor was constructed.
RECURSIVE Flatten(_)
\* features.py:26: the number columns of all rows, flattened
Flatten(data) == IF data = <<>> THEN <<>>
                 ELSE Head(data).numbers \o Flatten(Tail(data))

CountIn(s, x) == Cardinality({i \in 1..Len(s) : s[i] = x})

\* features.py:45: the window of get_recent_appearances (recent_count=10)
RecentCount == 10

\* features.py:35-39: Counter(all_numbers).get(num, 0)
get_total_appearances(data, num) == CountIn(Flatten(data), num)

\* features.py:41-46: Counter(all_numbers[-recent_count*6:]).get(num, 0)
get_recent_appearances(data, num) ==
    LET all == Flatten(data)
        from == Max2(1, Len(all) - RecentCount * 6 + 1)
    IN CountIn(SubSeq(all, from, Len(all)), num)

\* features.py:48-67: the scan breaks at the FIRST row holding num
get_missing_intervals(data, num) ==
    LET rows == {i \in 1..Len(data) : num \in SeqToSet(data[i].numbers)}
    IN IF rows = {} THEN Len(data)
       ELSE LET first == CHOOSE i \in rows : \A j \in rows : i <= j
            IN Len(data) - 1 - (first - 1)

\* ------------------------------------------------------------ learn.py
\* learn.py:23-34 and predict_adaptive.py:24-35: the default weights
FeatureNames ==
    {"total_appearances", "recent_appearances", "missing_intervals",
     "hot_cold", "periodicity", "regression_trend", "moving_average",
     "attraction_effect", "distribution", "adjacent_correlation"}

default_weights ==
    [f \in FeatureNames |->
        CASE f = "total_appearances" -> 1500
          [] f = "recent_appearances" -> 2000
          [] f = "missing_intervals" -> 1500
          [] f = "hot_cold" -> 1000
          [] f = "periodicity" -> 1000
          [] f = "regression_trend" -> 800
          [] f = "moving_average" -> 800
          [] f = "attraction_effect" -> 500
          [] f = "distribution" -> 500
          [] f = "adjacent_correlation" -> 400]

\* A faulty load: the stored document is returned as it is.
LoadWeightsAsStored(file) ==
    IF ~file.exists \/ file.malformed THEN default_weights ELSE file.doc

\* learn.py:36-48: a missing file gives the defaults; a stored document is
\* completed with the default of every name it lacks.
LoadWeights(file) ==
    IF ~file.exists \/ file.malformed THEN default_weights
    ELSE [f \in (DOMAIN file.doc) \cup FeatureNames |->
             IF f \in DOMAIN file.doc THEN file.doc[f] ELSE default_weights[f]]

\* A faulty save: an existing weights file is never overwritten.
SaveWeightsOnce(file, weights, ok) ==
    IF ok /\ ~file.exists
    THEN [exists |-> TRUE, malformed |-> FALSE, doc |-> weights] ELSE file

\* learn.py:50-58: a failing write is caught and printed
SaveWeights(file, weights, ok) ==
    IF ok THEN [exists |-> TRUE, malformed |-> FALSE, doc |-> weights] ELSE file

\* learn.py:94-116: the feature value collected for num, or none
HasFeatureValue(feature_name) ==
    feature_name \in {"total_appearances", "recent_appearances", "missing_intervals"}

FeatureValue(feature_name, data, num) ==
    CASE feature_name = "total_appearances" -> get_total_appearances(data, num)
      [] feature_name = "recent_appearances" -> get_recent_appearances(data, num)
      [] feature_name = "missing_intervals" -> get_missing_intervals(data, num)
      [] OTHER -> 0

\* learn.py:106-116: the numbers of the predictions with at least 2 hits
PredictedGroup(predictions) ==
    UNION {SeqToSet(predictions[i].predicted_numbers) :
              i \in {j \in 1..Len(predictions) : predictions[j].hit_count >= 2}}

\* learn.py:89-130: effectiveness = max(0, 1 - |a - p| / max(a, p, 1)) with
\* a, p the means of the collected values (0 for an empty group).  With
\* a = Sa/na and p = Sp/np the quotient is computed exactly and rounded once.
analyze_single_feature(feature_name, data, actual_result, predictions) ==
    LET A == IF HasFeatureValue(feature_name) THEN SeqToSet(actual_result) ELSE {}
        P == IF HasFeatureValue(feature_name) THEN PredictedGroup(predictions) ELSE {}
        val == [n \in A \cup P |-> FeatureValue(feature_name, data, n)]
        na == Max2(1, Cardinality(A))
        np == Max2(1, Cardinality(P))
        a == SumOver(val, A) * np
        p == SumOver(val, P) * na
        one == na * np
        effectiveness == Scale - FDiv(Abs(a - p) * Scale, Max2(Max2(a, p), one))
    IN Max2(0, effectiveness)

\* learn.py:71-87: effectiveness of every feature of the weight vector
analyze_feature_performance(weights, data, evaluation) ==
    [f \in DOMAIN weights |->
        analyze_single_feature(f, data, evaluation.actual_result,
                               evaluation.predictions)]

\* learn.py:10: learning_rate=0.1
LearningRate == 1000

\* learn.py:142: (best/6)*0.7 + (avg/6)*0.3 > 0.5, over the common
\* denominator 60*den
GoodPerformance(evaluation) ==
    LET best == evaluation.summary.best_hit_count
        avg == evaluation.summary.average_hit_count
    IN 7 * best * avg.den + 3 * avg.num > 30 * avg.den

\* A faulty adjustment: an effective feature is rewarded whatever the overall
\* performance.
AdjustmentAlwaysRewards(effectiveness, good) ==
    IF effectiveness > 6000
    THEN FDiv(LearningRate * effectiveness, Scale)
    ELSE IF good THEN -FDiv(LearningRate * (Scale - effectiveness) * 3, Scale * 10)
                 ELSE -FDiv(LearningRate * (Scale - effectiveness), Scale)

\* learn.py:148-157: one feature's adjustment
Adjustment(effectiveness, good) ==
    IF effectiveness > 6000
    THEN IF good THEN FDiv(LearningRate * effectiveness, Scale)
                 ELSE -FDiv(LearningRate * effectiveness * 5, Scale * 10)
    ELSE IF good THEN -FDiv(LearningRate * (Scale - effectiveness) * 3, Scale * 10)
                 ELSE -FDiv(LearningRate * (Scale - effectiveness), Scale)

\* learn.py:132-161
calculate_weight_adjustments(feature_performance, evaluation) ==
    [f \in DOMAIN feature_performance |->
        Adjustment(feature_performance[f], GoodPerformance(evaluation))]

\* learn.py:172: max(0.01, min(0.5, old_weight + adjustment))
WMin == 100
WMax == 5000
Clamp(w) == Max2(WMin, Min2(WMax, w))

\* learn.py:170-174: the adjusted features are clamped, the others kept
ClampedWeights(weights, adjustments) ==
    [f \in DOMAIN weights |->
        IF f \in DOMAIN adjustments THEN Clamp(weights[f] + adjustments[f])
        ELSE weights[f]]

\* A faulty renormalization: the clamped weights are kept as they are.
NormalizeSkipped(weights) == weights

\* learn.py:180-182: every weight divided by the total
Normalize(weights) ==
    LET total_weight == SumOver(weights, DOMAIN weights)
    IN [f \in DOMAIN weights |-> FDiv(weights[f] * Scale, total_weight)]

\* learn.py:180-182 divides by the total: ZeroDivisionError when it is 0,
\* after the clamped weights were stored (learn.py:174)
ApplyRaises(weights, adjustments) ==
    LET clamped == ClampedWeights(weights, adjustments)
    IN SumOver(clamped, DOMAIN clamped) = 0

\* learn.py:163-185: self.weights after the call
apply_weight_adjustments(weights, adjustments) ==
    IF ApplyRaises(weights, adjustments)
    THEN ClampedWeights(weights, adjustments)
    ELSE Normalize(ClampedWeights(weights, adjustments))

\* learn.py:195-207: the weights after learn_from_evaluation found
\* `evaluation` for the date
LearnedWeights(weights, data, evaluation) ==
    apply_weight_adjustments(weights,
        calculate_weight_adjustments(
            analyze_feature_performance(weights, data, evaluation), evaluation))

\* ------------------------------------------------------------ main_loop.py
VARIABLES
    csv,               \* the draw-history file: rows [date, numbers]
    weightsFile,       \* weights.json: [exists, malformed, doc]
    evaluationFile,    \* evaluation_results.json: [exists, malformed, doc]
    processedFile,     \* processed_dates.json: [exists, malformed, doc]
    predictorWeights,  \* system.predictor.weights
    predictorData,     \* system.predictor.features.data (read at construction)
    aliased,           \* predictor.weights is the learner's dict object
    evaluatorResults,  \* system.evaluator.results
    learnerResults,    \* system.learner.evaluator.results
    learnerWeights,    \* system.learner.weights
    processed_dates,   \* system.processed_dates
    pc,                \* position: idle, loop, predict, evaluate, learn, record
    caller,            \* who called process_single_draw: loop, add, none
    unprocessed,       \* run_learning_loop: the batch of this invocation
    loopIndex,         \* run_learning_loop: draws of the batch taken so far
    draw_info,         \* process_single_draw: the draw of this cycle
    predictions,       \* process_single_draw: the predictor's batch
    cycle,             \* what the current (or last) cycle did, for the claims
    history,           \* what the run so far did, for the claims
    counters,          \* cycles, restarts, failed writes, direct calls so far
    predictCall,       \* predict_numbers called directly: its locals
    directCall         \* a pure function called directly: inputs and outcome

vars == <<csv, weightsFile, evaluationFile, processedFile, predictorWeights,
          predictorData, aliased, evaluatorResults, learnerResults,
          learnerWeights, processed_dates, pc, caller, unprocessed, loopIndex,
          draw_info, predictions, cycle, history, counters, predictCall,
          directCall>>

Row(d, nums) == [date |-> d, numbers |-> nums]
Dates(rows) == {rows[i].date : i \in 1..Len(rows)}
Candidate(nums, score) == [numbers |-> nums, score |-> score]

\* The history the system is first constructed on.
InitialCsv == <<Row("d1", <<1, 2, 3, 4, 5, 6>>), Row("d2", <<3, 4, 5, 6, 7, 8>>)>>

\* Draws a user may add with add_actual_result (main_loop.py:304-310), by
\* date: the n-th added draw is the first of them not yet in the file.
AddedDraws == <<Row("d3", <<8, 7, 3, 2, 1, 9>>), Row("d4", <<9, 10, 11, 1, 2, 3>>)>>

\* predict_adaptive.py:251-291: predict_numbers returns between 1 and
\* num_predictions candidates of 6 numbers sampled at random from the pool, in
\* sample order, sorted by combination score.  The batches a cycle may get:
PredictionBatches ==
    {<<Candidate(<<6, 5, 4, 3, 2, 1>>, 8000), Candidate(<<7, 8, 9, 10, 11, 12>>, 6000)>>,
     <<Candidate(<<1, 2, 20, 21, 22, 23>>, 5000)>>}

\* main_loop.py:298-299: max_draws as the set {} (None) or {k}
MaxDrawsInputs == {{}, {0}, {1}}

MissingDict == [exists |-> FALSE, malformed |-> FALSE, doc |-> EmptyDict]
MissingList == [exists |-> FALSE, malformed |-> FALSE, doc |-> {}]

\* main_loop.py:25-36
load_processed_dates(file) ==
    IF file.exists /\ ~file.malformed THEN file.doc ELSE {}

\* main_loop.py:38-46: a failing write is caught and printed
save_processed_dates(file, dates, ok) ==
    IF ok THEN [exists |-> TRUE, malformed |-> FALSE, doc |-> dates] ELSE file

\* main_loop.py:52-69: the rows of the file whose date is not processed
RECURSIVE Unprocessed(_, _)
Unprocessed(rows, done) ==
    IF rows = <<>> THEN <<>>
    ELSE IF Head(rows).date \notin done
         THEN <<Head(rows)>> \o Unprocessed(Tail(rows), done)
         ELSE Unprocessed(Tail(rows), done)

get_unprocessed_draws(file, done) == Unprocessed(file, done)

\* main_loop.py:154-155: `if max_draws:` is false for None and for 0
Truncate(batch, max_draws) ==
    IF max_draws = {} \/ max_draws = {0} THEN batch
    ELSE LET k == CHOOSE n \in max_draws : TRUE
         IN SubSeq(batch, 1, Min2(k, Len(batch)))

\* no function has been called directly
NoDirectCall == [fn |-> "none"]

\* predict_numbers not called
NoPredictCall == [pc |-> "idle", candidates |-> {}, num_predictions |-> 0,
                  predictions |-> <<>>, attempts |-> 0, result |-> <<>>]

NoCycle == [date |-> "", evaluation |-> {}, learnerSaw |-> {}, learn |-> "none",
            performance |-> EmptyDict, adjustments |-> EmptyDict,
            weightsBefore |-> default_weights, predictorBefore |-> default_weights,
            writes |-> <<>>, result |-> "none"]

NoHistory == [everProcessed |-> {}, attempted |-> <<>>, skipped |-> {},
              reprocessed |-> {}, max_draws |-> {}]

\* cycles started, restarts, failed writes, calls of the learner's methods
NoCounters == [cycles |-> 0, restarts |-> 0, failures |-> 0, calls |-> 0]

\* Outcomes of one write: it may fail while failures are left.
WriteOutcomes == IF counters.failures < MaxWriteFailures THEN {TRUE, FALSE} ELSE {TRUE}
Failed(k, ok) == IF ok THEN k ELSE [k EXCEPT !.failures = @ + 1]
Called == [counters EXCEPT !.calls = @ + 1]

\* main_loop.py:15-23: TotoLearningSystem() over the files as they are
\* (with a predictor whose features of the three per-number kinds were
\* computed from the file; what calculate_all_features raises is in
\* CalculateAllFeaturesRaises)
Construct ==
    /\ predictorWeights' = LoadWeights(weightsFile)
    /\ predictorData' = csv
    /\ aliased' = FALSE
    /\ evaluatorResults' = LoadEvaluationResults(evaluationFile)
    /\ learnerWeights' = LoadWeights(weightsFile)
    /\ learnerResults' = LoadEvaluationResults(evaluationFile)
    /\ processed_dates' = load_processed_dates(processedFile)

Init ==
    /\ csv = InitialCsv
    /\ weightsFile = MissingDict
    /\ evaluationFile = MissingDict
    /\ processedFile = MissingList
    /\ predictorWeights = default_weights
    /\ predictorData = InitialCsv
    /\ aliased = FALSE
    /\ evaluatorResults = EmptyDict
    /\ learnerWeights = default_weights
    /\ learnerResults = EmptyDict
    /\ processed_dates = {}
    /\ pc = "idle"
    /\ caller = "none"
    /\ unprocessed = <<>>
    /\ loopIndex = 0
    /\ draw_info = Row("", <<>>)
    /\ predictions = <<>>
    /\ cycle = NoCycle
    /\ history = NoHistory
    /\ counters = NoCounters
    /\ predictCall = NoPredictCall
    /\ directCall = NoDirectCall

\* The process ends and the system is constructed again from the files; the
\* locals of the calls that had returned are gone with it.
Restart ==
    /\ UNCHANGED <<predictCall, directCall>>
    /\ pc = "idle"
    /\ counters.restarts < MaxRestarts
    /\ Construct
    /\ counters' = [counters EXCEPT !.restarts = @ + 1]
    /\ caller' = "none"
    /\ unprocessed' = <<>>
    /\ loopIndex' = 0
    /\ draw_info' = Row("", <<>>)
    /\ predictions' = <<>>
    /\ cycle' = NoCycle
    /\ history' = [history EXCEPT !.attempted = <<>>, !.skipped = {},
                                  !.max_draws = {}]
    /\ UNCHANGED <<csv, weightsFile, evaluationFile, processedFile, pc>>

\* main_loop.py:84-88: process_single_draw is entered for `draw`
BeginCycle(draw, who) ==
    /\ draw_info' = draw
    /\ caller' = who
    /\ pc' = "predict"
    /\ predictions' = <<>>
    /\ cycle' = [NoCycle EXCEPT !.date = draw.date,
                                !.weightsBefore = learnerWeights,
                                !.predictorBefore = predictorWeights]
    /\ counters' = [counters EXCEPT !.cycles = @ + 1]

\* A faulty return: the end of a cycle also ends the loop that called it.
EndCycleAborts(result) ==
    /\ pc' = "idle"
    /\ cycle' = [cycle EXCEPT !.result = result]

\* main_loop.py:125/129 and 163-166: process_single_draw returns
EndCycle(result) ==
    /\ pc' = IF caller = "loop" THEN "loop" ELSE "idle"
    /\ cycle' = [cycle EXCEPT !.result = result]

\* main_loop.py:131-156: run_learning_loop up to the for loop
RunLearningLoop ==
    /\ UNCHANGED <<predictCall, directCall>>
    /\ pc = "idle"
    /\ \E max_draws \in MaxDrawsInputs :
         LET batch == Truncate(get_unprocessed_draws(csv, processed_dates), max_draws)
         IN /\ counters.cycles + Len(batch) <= MaxCycles
            /\ unprocessed' = batch
            /\ pc' = IF get_unprocessed_draws(csv, processed_dates) = <<>>
                     THEN "idle" ELSE "loop"
            /\ history' = [history EXCEPT
                   !.attempted = <<>>, !.skipped = {},
                   !.max_draws = IF get_unprocessed_draws(csv, processed_dates) = <<>>
                                 THEN {} ELSE max_draws]
    /\ loopIndex' = 0
    /\ draw_info' = Row("", <<>>)
    /\ predictions' = <<>>
    /\ cycle' = NoCycle
    /\ UNCHANGED <<csv, weightsFile, evaluationFile, processedFile,
                   predictorWeights, predictorData, aliased, evaluatorResults,
                   learnerResults, learnerWeights, processed_dates, caller,
                   counters>>

\* main_loop.py:160-163: the for loop takes the next draw of the batch
LoopNext ==
    /\ UNCHANGED <<predictCall, directCall>>
    /\ pc = "loop"
    /\ loopIndex < Len(unprocessed)
    /\ loopIndex' = loopIndex + 1
    /\ BeginCycle(unprocessed[loopIndex + 1], "loop")
    /\ history' = [history EXCEPT
          !.attempted = Append(@, unprocessed[loopIndex + 1].date),
          !.reprocessed = @ \cup ({unprocessed[loopIndex + 1].date}
                                     \cap history.everProcessed)]
    /\ UNCHANGED <<csv, weightsFile, evaluationFile, processedFile,
                   predictorWeights, predictorData, aliased, evaluatorResults,
                   learnerResults, learnerWeights, processed_dates, unprocessed>>

\* main_loop.py:168-183: the batch is exhausted, the loop returns
LoopDone ==
    /\ UNCHANGED <<predictCall, directCall>>
    /\ pc = "loop"
    /\ loopIndex = Len(unprocessed)
    /\ pc' = "idle"
    /\ history' = [history EXCEPT !.max_draws = {}]
    /\ UNCHANGED <<csv, weightsFile, evaluationFile, processedFile,
                   predictorWeights, predictorData, aliased, evaluatorResults,
                   learnerResults, learnerWeights, processed_dates, caller,
                   unprocessed, loopIndex, draw_info, predictions, cycle,
                   counters>>

\* main_loop.py:214-235: the row is appended and the cycle run at once
AddActualResult ==
    /\ UNCHANGED <<predictCall, directCall>>
    /\ pc = "idle"
    /\ Len(csv) < MaxCsvRows
    /\ counters.cycles < MaxCycles
    /\ \E i \in 1..Len(AddedDraws) :
         /\ AddedDraws[i].date \notin Dates(csv)
         /\ \A j \in 1..(i - 1) : AddedDraws[j].date \in Dates(csv)
         /\ csv' = Append(csv, AddedDraws[i])
         /\ BeginCycle(AddedDraws[i], "add")
    /\ UNCHANGED <<weightsFile, evaluationFile, processedFile, predictorWeights,
                   predictorData, aliased, evaluatorResults, learnerResults,
                   learnerWeights, processed_dates, unprocessed, loopIndex,
                   history>>

\* main_loop.py:127-129: an exception of any step is caught, the cycle
\* returns False and the loop reports the skipped date (main_loop.py:165-166)
CycleRaises ==
    /\ EndCycle("failed")
    /\ history' = IF caller = "loop"
                  THEN [history EXCEPT !.skipped = @ \cup {draw_info.date}]
                  ELSE history

\* main_loop.py:93-104: the features of the predictor and its batch.  The
\* scoring code may raise (predict_adaptive.py:68 divides by the expected
\* appearances); the exception is caught by the cycle.
Predict ==
    /\ UNCHANGED <<predictCall, directCall>>
    /\ pc = "predict"
    /\ \/ /\ \E batch \in PredictionBatches : predictions' = batch
          /\ pc' = "evaluate"
          /\ UNCHANGED <<cycle, history>>
       \/ /\ CycleRaises
          /\ UNCHANGED predictions
    /\ UNCHANGED <<csv, weightsFile, evaluationFile, processedFile,
                   predictorWeights, predictorData, aliased, evaluatorResults,
                   learnerResults, learnerWeights, processed_dates, caller,
                   unprocessed, loopIndex, draw_info, counters>>

\* evaluate.py:40-101: evaluate_predictions on a non-empty batch stores the
\* evaluation and saves the map
EvaluatePredictions(draw_date, batch, actual_result, c, k) ==
    \E ok \in WriteOutcomes :
      LET evaluation == BuildEvaluation(draw_date, batch, actual_result)
          results == StoreEvaluation(evaluatorResults, draw_date, evaluation)
      IN /\ evaluatorResults' = results
         /\ evaluationFile' = SaveEvaluationResults(evaluationFile, results, ok)
         /\ counters' = Failed(k, ok)
         /\ cycle' = [c EXCEPT !.evaluation = {evaluation},
                               !.writes = Append(@, <<"evaluation", ok>>)]

\* main_loop.py:108-111
Evaluate ==
    /\ UNCHANGED <<predictCall, directCall>>
    /\ pc = "evaluate"
    /\ IF EvaluateRaises(predictions)
       THEN /\ CycleRaises
            /\ UNCHANGED <<evaluatorResults, evaluationFile, counters>>
       ELSE /\ EvaluatePredictions(draw_info.date, predictions,
                                   draw_info.numbers, cycle, counters)
            /\ pc' = "learn"
            /\ UNCHANGED history
    /\ UNCHANGED <<csv, weightsFile, processedFile, predictorWeights,
                   predictorData, aliased, learnerResults, learnerWeights,
                   processed_dates, caller, unprocessed, loopIndex, draw_info,
                   predictions>>

\* A faulty learner: without an evaluation result it still saves the weights.
LearnAlwaysSaves(draw_date, c, k) ==
    \E ok \in WriteOutcomes :
      LET found == draw_date \in DOMAIN learnerResults
          weights == IF found
                     THEN LearnedWeights(learnerWeights, predictorData,
                                         learnerResults[draw_date])
                     ELSE learnerWeights
      IN /\ learnerWeights' = weights
         /\ predictorWeights' = IF aliased THEN weights ELSE predictorWeights
         /\ weightsFile' = SaveWeights(weightsFile, weights, ok)
         /\ counters' = Failed(k, ok)
         /\ cycle' = [c EXCEPT
                !.learn = IF found THEN "updated" ELSE "skipped",
                !.learnerSaw = IF found THEN {learnerResults[draw_date]} ELSE {},
                !.writes = Append(@, <<"weights", ok>>)]

\* A faulty learner: the weights are saved before and after the summary.
LearnSavesTwice(draw_date, c, k) ==
    IF draw_date \notin DOMAIN learnerResults
    THEN \* learn.py:199-201: no evaluation result, return
         /\ cycle' = [c EXCEPT !.learn = "skipped"]
         /\ UNCHANGED <<learnerWeights, predictorWeights, weightsFile>>
         /\ counters' = k
    ELSE \E ok \in WriteOutcomes :
           LET evaluation == learnerResults[draw_date]
               feature_performance ==
                   analyze_feature_performance(learnerWeights, predictorData, evaluation)
               adjustments ==
                   calculate_weight_adjustments(feature_performance, evaluation)
               weights == apply_weight_adjustments(learnerWeights, adjustments)
           IN /\ learnerWeights' = weights
              /\ predictorWeights' = IF aliased THEN weights ELSE predictorWeights
              /\ weightsFile' = SaveWeights(weightsFile, weights, ok)
              /\ counters' = Failed(k, ok)
              /\ cycle' = [c EXCEPT
                     !.learn = "updated",
                     !.learnerSaw = {evaluation},
                     !.performance = feature_performance,
                     !.adjustments = adjustments,
                     !.writes = Append(Append(@, <<"weights", ok>>),
                                       <<"weights", ok>>)]

\* learn.py:187-213: learn_from_evaluation(draw_date, features) on the
\* learner's own evaluator; features are the predictor's (main_loop.py:93)
LearnFromEvaluation(draw_date, c, k) ==
    IF draw_date \notin DOMAIN learnerResults
    THEN \* learn.py:199-201: no evaluation result, return
         /\ cycle' = [c EXCEPT !.learn = "skipped"]
         /\ UNCHANGED <<learnerWeights, predictorWeights, weightsFile>>
         /\ counters' = k
    ELSE \E ok \in WriteOutcomes :
           LET evaluation == learnerResults[draw_date]
               feature_performance ==
                   analyze_feature_performance(learnerWeights, predictorData, evaluation)
               adjustments ==
                   calculate_weight_adjustments(feature_performance, evaluation)
               weights == apply_weight_adjustments(learnerWeights, adjustments)
           IN /\ learnerWeights' = weights
              /\ predictorWeights' = IF aliased THEN weights ELSE predictorWeights
              /\ weightsFile' = SaveWeights(weightsFile, weights, ok)
              /\ counters' = Failed(k, ok)
              /\ cycle' = [c EXCEPT
                     !.learn = "updated",
                     !.learnerSaw = {evaluation},
                     !.performance = feature_performance,
                     !.adjustments = adjustments,
                     !.writes = Append(@, <<"weights", ok>>)]

\* main_loop.py:115
Learn ==
    /\ UNCHANGED <<predictCall, directCall>>
    /\ pc = "learn"
    /\ LearnFromEvaluation(draw_info.date, cycle, counters)
    /\ pc' = "record"
    /\ UNCHANGED <<csv, evaluationFile, processedFile, predictorData, aliased,
                   evaluatorResults, learnerResults, processed_dates, caller,
                   unprocessed, loopIndex, draw_info, predictions, history>>

\* A faulty cycle: the predictor keeps the weights it was constructed with.
ReloadWeightsSkipped == UNCHANGED <<predictorWeights, aliased>>

\* main_loop.py:118: self.predictor.weights = self.learner.weights
ReloadWeights ==
    /\ predictorWeights' = learnerWeights
    /\ aliased' = TRUE

\* main_loop.py:118-125
Record ==
    /\ UNCHANGED <<predictCall, directCall>>
    /\ pc = "record"
    /\ ReloadWeights
    /\ \E ok \in WriteOutcomes :
         /\ processed_dates' = processed_dates \cup {draw_info.date}
         /\ processedFile' = save_processed_dates(processedFile,
                                 processed_dates \cup {draw_info.date}, ok)
         /\ counters' = Failed(counters, ok)
         /\ pc' = IF caller = "loop" THEN "loop" ELSE "idle"
         /\ cycle' = [cycle EXCEPT !.result = "done",
                                   !.writes = Append(@, <<"processed", ok>>)]
    /\ history' = [history EXCEPT !.everProcessed = @ \cup {draw_info.date}]
    /\ UNCHANGED <<csv, weightsFile, evaluationFile, predictorData,
                   evaluatorResults, learnerResults, learnerWeights, caller,
                   unprocessed, loopIndex, draw_info, predictions>>

Next ==
    \/ Restart
    \/ RunLearningLoop
    \/ LoopNext
    \/ LoopDone
    \/ AddActualResult
    \/ Predict
    \/ Evaluate
    \/ Learn
    \/ Record

Spec == Init /\ [][Next]_vars

\* ------------------------------------------------ the learner called directly
\* Weight vectors a learner may start from (weights.json is any document of
\* non-negative numbers; its missing names are filled with the defaults).
StartingWeights ==
    {default_weights,
     [f \in FeatureNames |-> 1000],
     [f \in FeatureNames |-> 0],
     [f \in FeatureNames |-> IF f = "hot_cold" THEN 9000 ELSE 0],
     [f \in FeatureNames |-> IF f = "periodicity" THEN 4000 ELSE 1000]}

AllBy(v) == [f \in FeatureNames |-> v]

\* Adjustments over the feature names: all of them, some of them, none.
AdjustmentSamples ==
    {AllBy(-1000), AllBy(-500), AllBy(1000),
     [f \in FeatureNames |-> IF HasFeatureValue(f) THEN -300 ELSE 1000],
     [f \in {"total_appearances", "hot_cold"} |-> 800],
     EmptyDict}

\* Evaluation results a learner's evaluator may have loaded: one date with a
\* good batch, one with a poor batch.
SampleResults ==
    JsonResults(
        [d \in {"d1", "d2"} |->
            IF d = "d1"
            THEN BuildEvaluation("d1",
                     <<Candidate(<<6, 5, 4, 3, 2, 1>>, 8000),
                       Candidate(<<7, 8, 9, 10, 11, 12>>, 6000)>>,
                     <<1, 2, 3, 4, 5, 6>>)
            ELSE BuildEvaluation("d2",
                     <<Candidate(<<1, 2, 20, 21, 22, 23>>, 5000)>>,
                     <<3, 4, 5, 6, 7, 8>>)])

InitLearn ==
    /\ csv = InitialCsv
    /\ weightsFile = MissingDict
    /\ evaluationFile = [exists |-> TRUE, malformed |-> FALSE, doc |-> SampleResults]
    /\ processedFile = MissingList
    /\ predictorWeights = default_weights
    /\ predictorData = InitialCsv
    /\ aliased = FALSE
    /\ evaluatorResults = SampleResults
    /\ learnerWeights \in StartingWeights
    /\ learnerResults = SampleResults
    /\ processed_dates = {}
    /\ pc = "idle"
    /\ caller = "none"
    /\ unprocessed = <<>>
    /\ loopIndex = 0
    /\ draw_info = Row("", <<>>)
    /\ predictions = <<>>
    /\ cycle = [NoCycle EXCEPT !.weightsBefore = learnerWeights]
    /\ history = NoHistory
    /\ counters = NoCounters
    /\ predictCall = NoPredictCall
    /\ directCall = NoDirectCall

\* learner.learn_from_evaluation(draw_date, features) called directly
LearnCall ==
    /\ UNCHANGED <<predictCall, directCall>>
    /\ counters.calls < MaxLearnCalls
    /\ \E draw_date \in {"d1", "d2", "d3"} :
         LearnFromEvaluation(draw_date,
             [NoCycle EXCEPT !.date = draw_date, !.weightsBefore = learnerWeights],
             Called)
    /\ UNCHANGED <<csv, evaluationFile, processedFile, predictorData, aliased,
                   evaluatorResults, learnerResults, processed_dates, pc, caller,
                   unprocessed, loopIndex, draw_info, predictions, history>>

\* learner.apply_weight_adjustments(adjustments) called directly
ApplyCall ==
    /\ UNCHANGED <<predictCall, directCall>>
    /\ counters.calls < MaxLearnCalls
    /\ \E adjustments \in AdjustmentSamples :
         /\ learnerWeights' = apply_weight_adjustments(learnerWeights, adjustments)
         /\ cycle' = [NoCycle EXCEPT
                !.weightsBefore = learnerWeights,
                !.learn = IF ApplyRaises(learnerWeights, adjustments)
                          THEN "raised" ELSE "updated"]
    /\ counters' = Called
    /\ UNCHANGED <<csv, weightsFile, evaluationFile, processedFile,
                   predictorWeights, predictorData, aliased, evaluatorResults,
                   learnerResults, processed_dates, pc, caller, unprocessed,
                   loopIndex, draw_info, predictions, history>>

NextLearn == LearnCall \/ ApplyCall

SpecLearn == InitLearn /\ [][NextLearn]_vars

\* ------------------------------- calculate_weight_adjustments called directly
\* Effectiveness values on both sides of the 0.6 threshold.
EffectivenessSamples == {0, 3000, 6000, 6001, 8000, Scale}

\* Feature performances: one effectiveness for all features, and a mixed one.
PerformanceSamples ==
    {AllBy(e) : e \in EffectivenessSamples}
       \cup {[f \in FeatureNames |-> IF HasFeatureValue(f) THEN 2500 ELSE Scale]}

\* Evaluations with overall performance 0.85, 0.6, 0.5 and 0.
AdjustEvaluations ==
    {BuildEvaluation("d1",
         <<Candidate(<<6, 5, 4, 3, 2, 1>>, 8000), Candidate(<<7, 8, 9, 10, 11, 12>>, 6000)>>,
         <<1, 2, 3, 4, 5, 6>>),
     BuildEvaluation("d1",
         <<Candidate(<<1, 2, 3, 4, 10, 11>>, 8000), Candidate(<<3, 4, 5, 6, 20, 21>>, 7000),
           Candidate(<<30, 31, 32, 33, 34, 35>>, 6000)>>,
         <<1, 2, 3, 4, 5, 6>>),
     BuildEvaluation("d1",
         <<Candidate(<<1, 2, 3, 10, 11, 12>>, 8000)>>,
         <<1, 2, 3, 4, 5, 6>>),
     BuildEvaluation("d2",
         <<Candidate(<<1, 2, 20, 21, 22, 23>>, 5000)>>,
         <<3, 4, 5, 6, 7, 8>>)}

\* learner.calculate_weight_adjustments(feature_performance, evaluation)
AdjustCall ==
    /\ \E feature_performance \in PerformanceSamples, evaluation \in AdjustEvaluations :
         cycle' = [NoCycle EXCEPT
                      !.weightsBefore = learnerWeights,
                      !.learn = "adjusted",
                      !.learnerSaw = {evaluation},
                      !.performance = feature_performance,
                      !.adjustments =
                          calculate_weight_adjustments(feature_performance, evaluation)]
    /\ UNCHANGED <<csv, weightsFile, evaluationFile, processedFile,
                   predictorWeights, predictorData, aliased, evaluatorResults,
                   learnerResults, learnerWeights, processed_dates, pc, caller,
                   unprocessed, loopIndex, draw_info, predictions, history,
                   counters, predictCall, directCall>>

SpecAdjust == InitLearn /\ [][AdjustCall]_vars

\* ---------------------------------------------- load_weights called directly
\* the entries of a weight vector under the names of S
Restrict(weights, S) == [f \in S \cap DOMAIN weights |-> weights[f]]

\* Sets of names a stored document may hold: none, some, all of the default
\* catalogue.
StoredNames ==
    {{}, {"hot_cold"}, {"total_appearances", "hot_cold"},
     FeatureNames \ {"distribution"}, FeatureNames}

\* Documents of weights.json: parts of weight vectors, and a document with a
\* name the catalogue does not know.
WeightDocs ==
    {Restrict(w, S) : w \in StartingWeights, S \in StoredNames}
       \cup {[f \in {"hot_cold", "unknown_feature"} |-> 700]}

\* weights.json: missing, not parsable, or one of the documents
WeightFiles ==
    {MissingDict, [exists |-> TRUE, malformed |-> TRUE, doc |-> EmptyDict]}
       \cup {[exists |-> TRUE, malformed |-> FALSE, doc |-> d] : d \in WeightDocs}

\* learn.py:10-17 and predict_adaptive.py:12-17: learner and predictor
\* constructed over one of the files
InitLoad ==
    /\ csv = InitialCsv
    /\ weightsFile \in WeightFiles
    /\ evaluationFile = MissingDict
    /\ processedFile = MissingList
    /\ predictorWeights = LoadWeights(weightsFile)
    /\ predictorData = InitialCsv
    /\ aliased = FALSE
    /\ evaluatorResults = EmptyDict
    /\ learnerWeights = LoadWeights(weightsFile)
    /\ learnerResults = EmptyDict
    /\ processed_dates = {}
    /\ pc = "idle"
    /\ caller = "none"
    /\ unprocessed = <<>>
    /\ loopIndex = 0
    /\ draw_info = Row("", <<>>)
    /\ predictions = <<>>
    /\ cycle = NoCycle
    /\ history = NoHistory
    /\ counters = NoCounters
    /\ predictCall = NoPredictCall
    /\ directCall = NoDirectCall

\* weights.json is replaced from outside the program
ReplaceWeightsFile ==
    /\ \E file \in WeightFiles :
         /\ file # weightsFile
         /\ weightsFile' = file
    /\ cycle' = NoCycle
    /\ UNCHANGED <<csv, evaluationFile, processedFile, predictorWeights,
                   predictorData, aliased, evaluatorResults, learnerResults,
                   learnerWeights, processed_dates, pc, caller, unprocessed,
                   loopIndex, draw_info, predictions, history, counters,
                   predictCall, directCall>>

\* learn.py:19-48 and predict_adaptive.py:20-49: load_weights of the learner
\* and of the predictor
LoadWeightsCall ==
    /\ learnerWeights' = LoadWeights(weightsFile)
    /\ predictorWeights' = LoadWeights(weightsFile)
    /\ aliased' = FALSE
    /\ cycle' = [NoCycle EXCEPT !.learn = "loaded",
                                !.weightsBefore = learnerWeights,
                                !.predictorBefore = predictorWeights]
    /\ UNCHANGED <<csv, weightsFile, evaluationFile, processedFile,
                   predictorData, evaluatorResults, learnerResults,
                   processed_dates, pc, caller, unprocessed, loopIndex,
                   draw_info, predictions, history, counters, predictCall,
                   directCall>>

NextLoad == ReplaceWeightsFile \/ LoadWeightsCall

SpecLoad == InitLoad /\ [][NextLoad]_vars

\* ---------------------------------------------- the evaluator called directly
\* Batches of predictions: empty, one, two (with and without a tie), three;
\* the same numbers in different orders.
EvalBatches ==
    {<<>>,
     <<Candidate(<<6, 5, 4, 3, 2, 1>>, 8000)>>,
     <<Candidate(<<1, 2, 3, 4, 5, 6>>, 8000)>>,
     <<Candidate(<<7, 8, 9, 10, 11, 12>>, 6000)>>,
     <<Candidate(<<1, 2, 3, 4, 5, 6>>, 8000), Candidate(<<7, 8, 9, 10, 11, 12>>, 6000)>>,
     <<Candidate(<<1, 2, 20, 21, 22, 23>>, 5000), Candidate(<<23, 2, 22, 1, 21, 20>>, 5000)>>,
     <<Candidate(<<40, 41, 42, 43, 44, 45>>, 7000), Candidate(<<30, 31, 32, 33, 34, 35>>, 6500)>>,
     <<Candidate(<<7, 8, 9, 10, 11, 12>>, 9000), Candidate(<<1, 2, 3, 10, 11, 12>>, 7000),
       Candidate(<<12, 11, 10, 3, 2, 1>>, 6000)>>}

EvalActuals ==
    {<<1, 2, 3, 4, 5, 6>>, <<6, 1, 5, 2, 4, 3>>, <<12, 3, 20, 1, 45, 30>>}

\* evaluator.evaluate_predictions(draw_date, predictions, actual_result)
EvaluateCall ==
    /\ UNCHANGED <<predictCall, directCall>>
    /\ counters.calls < MaxEvalCalls
    /\ \E draw_date \in {"d1", "d2"}, batch \in EvalBatches, actual \in EvalActuals :
         /\ draw_info' = Row(draw_date, actual)
         /\ predictions' = batch
         /\ IF EvaluateRaises(batch)
            THEN /\ cycle' = [NoCycle EXCEPT !.date = draw_date, !.result = "failed"]
                 /\ counters' = Called
                 /\ UNCHANGED <<evaluatorResults, evaluationFile>>
            ELSE /\ EvaluatePredictions(draw_date, batch, actual,
                                        [NoCycle EXCEPT !.date = draw_date], Called)
    /\ UNCHANGED <<csv, weightsFile, processedFile, predictorWeights,
                   predictorData, aliased, learnerResults, learnerWeights,
                   processed_dates, pc, caller, unprocessed, loopIndex, history>>

SpecEval == Init /\ [][EvaluateCall]_vars

\* ------------------------------------------- predict_numbers called directly
\* predict_adaptive.py:228-234: is_prime
is_prime(n) == n >= 2 /\ \A i \in 2..n : i * i <= n => n % i # 0

\* predict_adaptive.py:241-243: is_square
is_square(n) == \E root \in 0..n : root * root = n

\* predict_adaptive.py:192-203: the five intervals 1-10, 11-20, 21-30, 31-40
\* and the rest
IntervalOf(num) ==
    IF 1 <= num /\ num <= 10 THEN 0
    ELSE IF 11 <= num /\ num <= 20 THEN 1
    ELSE IF 21 <= num /\ num <= 30 THEN 2
    ELSE IF 31 <= num /\ num <= 40 THEN 3
    ELSE 4

\* predict_adaptive.py:181: optimal_total = 147
OptimalTotal == 147

\* A faulty score: the six partial scores are added without their weights.
calculate_combination_scoreUnweighted(numbers) ==
    IF Len(numbers) # 6 THEN 0
    ELSE LET idx == 1..Len(numbers)
             total == SumSeq(numbers)
             odd_count == Cardinality({i \in idx : numbers[i] % 2 = 1})
         IN (Scale - FDiv(Abs(total - OptimalTotal) * Scale, OptimalTotal))
            + (Scale - FDiv(Abs(odd_count - (6 - odd_count)) * Scale, 6))

\* predict_adaptive.py:170-249: the combination score of a list of numbers,
\* in units of 1/Scale
calculate_combination_score(numbers) ==
    IF Len(numbers) # 6 THEN 0
    ELSE
    LET idx == 1..Len(numbers)
        total == SumSeq(numbers)
        total_score == Scale - FDiv(Abs(total - OptimalTotal) * Scale, OptimalTotal)
        odd_count == Cardinality({i \in idx : numbers[i] % 2 = 1})
        even_count == 6 - odd_count
        balance_score == Scale - FDiv(Abs(odd_count - even_count) * Scale, 6)
        intervals == [k \in 0..4 |->
                         Cardinality({i \in idx : IntervalOf(numbers[i]) = k})]
        part == [k \in 0..4 |->
                    IF 1 <= intervals[k] /\ intervals[k] <= 2 THEN Scale
                    ELSE IF intervals[k] = 0 THEN 3 * (Scale \div 10)
                    ELSE 5 * (Scale \div 10)]
        distribution_score == FDiv(SumOver(part, 0..4), 5)
        sorted_numbers == sorted(numbers)
        consecutive_count ==
            Cardinality({i \in 1..(Len(sorted_numbers) - 1) :
                            sorted_numbers[i + 1] - sorted_numbers[i] = 1})
        consecutive_score == Scale - FDiv(consecutive_count * Scale, 3)
        prime_count == Cardinality({i \in idx : is_prime(numbers[i])})
        prime_score == Scale - FDiv(Abs(prime_count - 2) * Scale, 6)
        square_count == Cardinality({i \in idx : is_square(numbers[i])})
        square_score == Scale - FDiv(Abs(square_count - 1) * Scale, 6)
    IN FDiv(20 * total_score, 100) + FDiv(15 * balance_score, 100)
       + FDiv(15 * distribution_score, 100) + FDiv(10 * consecutive_score, 100)
       + FDiv(10 * prime_score, 100) + FDiv(10 * square_score, 100)

RECURSIVE InsertByScore(_, _)
\* x placed behind every element whose score is at least its own
InsertByScore(x, s) ==
    IF s = <<>> THEN <<x>>
    ELSE IF Head(s).score >= x.score THEN <<Head(s)>> \o InsertByScore(x, Tail(s))
    ELSE <<x>> \o s

RECURSIVE SortByScore(_)
\* predict_adaptive.py:289: predictions.sort(key=score, reverse=True), stable
SortByScore(s) ==
    IF s = <<>> THEN <<>>
    ELSE InsertByScore(s[Len(s)], SortByScore(SubSeq(s, 1, Len(s) - 1)))

RECURSIVE Ascending(_)
\* the numbers of a set in ascending order
Ascending(S) ==
    IF S = {} THEN <<>>
    ELSE LET least == CHOOSE x \in S : \A y \in S : x <= y
         IN <<least>> \o Ascending(S \ {least})

Reversed(s) == [i \in 1..Len(s) |-> s[Len(s) + 1 - i]]

\* predict_adaptive.py:271: random.sample(candidates, 6) returns 6 different
\* elements of the pool in any order; the orders kept here are the ascending
\* and the descending one.
Samples(candidates) ==
    UNION {{Ascending(S), Reversed(Ascending(S))} :
              S \in {T \in SUBSET candidates : Cardinality(T) = 6}}

\* predict_adaptive.py:271: random.sample raises ValueError on a pool of
\* fewer than 6 numbers
SampleRaises(candidates) == Cardinality(candidates) < 6

\* A faulty budget: one attempt more than a hundred per prediction.
max_attemptsExceeded(num_predictions) == num_predictions * 100 + 1

\* predict_adaptive.py:267: max_attempts = num_predictions * 100
AttemptsPerPrediction == 100
max_attempts(num_predictions) == num_predictions * AttemptsPerPrediction

\* predict_adaptive.py:256-262: the pool is the num_candidates numbers of 1..49
\* with the highest scores.  Pools and requested counts of the calls:
PredictInputs ==
    {[candidates |-> {5, 12, 19, 26, 33, 47}, num_predictions |-> 6],
     [candidates |-> {5, 12, 19, 26, 33, 47}, num_predictions |-> 1],
     [candidates |-> {3, 4, 17, 24, 32, 40, 49}, num_predictions |-> 2],
     [candidates |-> {1, 2, 3, 4, 5, 6, 7}, num_predictions |-> 0],
     [candidates |-> {8, 9, 10, 11, 12}, num_predictions |-> 1]}

\* predict_adaptive.py:271-274: the samples of each pool with their
\* combination scores, computed once per pool
ScoredSamples ==
    [candidates \in {input.candidates : input \in PredictInputs} |->
        {Candidate(selected, calculate_combination_score(selected)) :
            selected \in Samples(candidates)}]

systemVars == <<csv, weightsFile, evaluationFile, processedFile, predictorWeights,
                predictorData, aliased, evaluatorResults, learnerResults,
                learnerWeights, processed_dates, pc, caller, unprocessed,
                loopIndex, draw_info, predictions, cycle, history, counters>>

\* predict_adaptive.py:251-267: predict_numbers is entered
PredictNumbers ==
    /\ predictCall.pc = "idle"
    /\ \E input \in PredictInputs :
         predictCall' = [NoPredictCall EXCEPT
                            !.pc = "sampling",
                            !.candidates = input.candidates,
                            !.num_predictions = input.num_predictions]
    /\ UNCHANGED <<systemVars, directCall>>

\* predict_adaptive.py:269: the condition of the while loop
Sampling ==
    /\ predictCall.pc = "sampling"
    /\ Len(predictCall.predictions) < predictCall.num_predictions
    /\ predictCall.attempts < max_attempts(predictCall.num_predictions)

\* A faulty pass: every sample is accepted, duplicates included.
SampleStepNoDuplicateCheck ==
    /\ Sampling
    /\ IF SampleRaises(predictCall.candidates)
       THEN predictCall' = [predictCall EXCEPT !.pc = "raised"]
       ELSE \E sample \in ScoredSamples[predictCall.candidates] :
              predictCall' = [predictCall EXCEPT
                  !.predictions = Append(@, sample),
                  !.attempts = @ + 1]
    /\ UNCHANGED <<systemVars, directCall>>

\* A faulty pass: a sample is a duplicate only of the same list of numbers.
SampleStepListCompare ==
    /\ Sampling
    /\ IF SampleRaises(predictCall.candidates)
       THEN predictCall' = [predictCall EXCEPT !.pc = "raised"]
       ELSE \E sample \in ScoredSamples[predictCall.candidates] :
              LET is_duplicate ==
                      \E i \in 1..Len(predictCall.predictions) :
                         sample.numbers = predictCall.predictions[i].numbers
              IN predictCall' = [predictCall EXCEPT
                     !.predictions = IF is_duplicate THEN @ ELSE Append(@, sample),
                     !.attempts = @ + 1]
    /\ UNCHANGED <<systemVars, directCall>>

\* predict_adaptive.py:269-286: one pass of the while loop
SampleStep ==
    /\ Sampling
    /\ IF SampleRaises(predictCall.candidates)
       THEN predictCall' = [predictCall EXCEPT !.pc = "raised"]
       ELSE \E sample \in ScoredSamples[predictCall.candidates] :
              LET selected == sample.numbers
                  combination_score == sample.score
                  is_duplicate ==
                      \E i \in 1..Len(predictCall.predictions) :
                         SeqToSet(selected)
                            = SeqToSet(predictCall.predictions[i].numbers)
              IN predictCall' = [predictCall EXCEPT
                     !.predictions =
                         IF is_duplicate THEN @
                         ELSE Append(@, Candidate(selected, combination_score)),
                     !.attempts = @ + 1]
    /\ UNCHANGED <<systemVars, directCall>>

\* predict_adaptive.py:288-291: the loop is left, the batch sorted and cut
PredictReturn ==
    /\ predictCall.pc = "sampling"
    /\ ~Sampling
    /\ predictCall' = [predictCall EXCEPT
           !.pc = "returned",
           !.result = LET ordered == SortByScore(predictCall.predictions)
                      IN SubSeq(ordered, 1,
                                Min2(predictCall.num_predictions, Len(ordered)))]
    /\ UNCHANGED <<systemVars, directCall>>

NextPredict == PredictNumbers \/ SampleStep \/ PredictReturn

\* The interpreter keeps running the loop: a step that stays enabled is taken.
SpecPredict ==
    Init /\ [][NextPredict]_vars /\ WF_vars(SampleStep) /\ WF_vars(PredictReturn)

\* ------------------------------------- TotoFeatures called directly
\* Rows a history may hold (its length with the bounds of this section).
MaxHistory == 3

\* Draws of the histories: with and without 7, with and without neighbours.
FeatureRows ==
    {Row("h", <<7, 1, 2, 3, 4, 5>>), Row("h", <<7, 12, 23, 34, 45, 49>>),
     Row("h", <<10, 12, 23, 34, 45, 49>>), Row("h", <<8, 16, 24, 32, 40, 48>>)}

\* features.py:24: the draws read_csv gives, from none to MaxHistory
Histories ==
    UNION {[1..n -> FeatureRows] : n \in 0..MaxHistory}

Numbers == 1..49

\* features.py:391-408: the feature functions in the order
\* calculate_all_features calls them
FeatureFunctions ==
    <<"total_appearances", "recent_appearances", "missing_intervals",
      "consecutive_pairs", "odd_even_ratio", "number_stats", "prime_square",
      "hot_cold", "distribution", "adjacent_correlation", "periodicity",
      "combinations", "regression_trend", "chi_square", "moving_average",
      "repeat_patterns", "attraction_effect">>

\* The exception a feature function raises on `data`, or "none":
\* features.py:93-94, 103, 149-150, 163 and 189 divide by the number of
\* draws or of numbers; features.py:298 calls count() on the numpy array
\* all_numbers, which has no such method.
FeatureRaises(name, data) ==
    CASE name = "chi_square" -> "AttributeError"
      [] name \in {"consecutive_pairs", "odd_even_ratio", "prime_square",
                   "hot_cold", "distribution"} ->
             IF Len(data) = 0 THEN "ZeroDivisionError" ELSE "none"
      [] OTHER -> "none"

\* features.py:387-409: the first exception raised while the dictionary is
\* built, or "none"
CalculateAllFeaturesRaises(data) ==
    LET raising == {i \in DOMAIN FeatureFunctions :
                       FeatureRaises(FeatureFunctions[i], data) # "none"}
    IN IF raising = {} THEN "none"
       ELSE LET first == CHOOSE i \in raising : \A j \in raising : i <= j
            IN FeatureRaises(FeatureFunctions[first], data)

\* features.py:9-33: TotoFeatures(csv_file) over a history
LoadData ==
    /\ directCall.fn = "none"
    /\ \E data \in Histories :
         directCall' = [fn |-> "load_data", data |-> data]
    /\ UNCHANGED <<systemVars, predictCall>>

\* features.py:48-67: get_missing_intervals()
GetMissingIntervalsCall ==
    /\ directCall.fn = "load_data"
    /\ directCall' =
          [fn |-> "get_missing_intervals", data |-> directCall.data,
           missing_intervals |->
               [num \in Numbers |-> get_missing_intervals(directCall.data, num)]]
    /\ UNCHANGED <<systemVars, predictCall>>

\* features.py:387-409: calculate_all_features()
CalculateAllFeaturesCall ==
    /\ directCall.fn = "load_data"
    /\ directCall' =
          [fn |-> "calculate_all_features", data |-> directCall.data,
           raised |-> CalculateAllFeaturesRaises(directCall.data),
           functions |->
               [i \in DOMAIN FeatureFunctions |->
                   FeatureRaises(FeatureFunctions[i], directCall.data)]]
    /\ UNCHANGED <<systemVars, predictCall>>

\* the call returns and its object is dropped
ReturnCall ==
    /\ directCall.fn \notin {"none", "load_data"}
    /\ directCall' = NoDirectCall
    /\ UNCHANGED <<systemVars, predictCall>>

NextFeatures ==
    LoadData \/ GetMissingIntervalsCall \/ CalculateAllFeaturesCall \/ ReturnCall

SpecFeatures == Init /\ [][NextFeatures]_vars

\* ------------------------------- the predictor's scores called directly
\* Pools the candidates of six numbers are taken from: the lowest and the
\* highest numbers, squares, primes, and a spread over the five intervals.
ScorePools ==
    {1..8, 42..49, {1, 4, 9, 16, 25, 36, 49, 2}, {2, 3, 5, 7, 11, 13, 17, 19},
     {5, 12, 19, 26, 33, 40, 47, 49}}

\* Lists of six different numbers of one pool, ascending and descending.
Selections == UNION {Samples(pool) : pool \in ScorePools}

\* predict_adaptive.py:170-249: the selections with their combination scores
ScoredSelections ==
    {Candidate(selected, calculate_combination_score(selected)) :
        selected \in Selections}

\* predict_adaptive.py:170-249: calculate_combination_score(numbers)
CombinationScoreCall ==
    /\ directCall.fn = "none"
    /\ \E scored \in ScoredSelections :
         directCall' = [fn |-> "calculate_combination_score",
                        numbers |-> scored.numbers, score |-> scored.score]
    /\ UNCHANGED <<systemVars, predictCall>>

\* the rows of data (from 1) that hold num
RowsWith(data, num) == {i \in 1..Len(data) : num \in SeqToSet(data[i].numbers)}

\* predict_adaptive.py:66-68: 1 - |total - expected| / expected with
\* expected = len(data) * 6 / 49; negative when total is above twice expected
appearance_score(data, number) ==
    Scale - FDiv(Abs(49 * get_total_appearances(data, number) - 6 * Len(data)) * Scale,
                 6 * Len(data))

\* predict_adaptive.py:72-73: min(recent / 3.0, 1.0)
recent_score(data, number) ==
    FDiv(Min2(get_recent_appearances(data, number), 3) * Scale, 3)

\* predict_adaptive.py:77-83: avg_interval = len(data) * 6 / 49
interval_score(data, number) ==
    LET missing_interval == get_missing_intervals(data, number)
    IN IF 49 * missing_interval > 9 * Len(data)
       THEN Min2(FDiv(49 * missing_interval * Scale, 12 * Len(data)), Scale)
       ELSE 3 * (Scale \div 10)

\* features.py:153-172 and predict_adaptive.py:86-94: hot when
\* recent/10 > total/len(data) * 0.7, else cold when
\* recent/10 < total/len(data) * (1 - 0.7).  In floating point 1 - 0.7 is
\* 0.30000000000000004: a number of every draw with 3 recent appearances is
\* cold.  (Histories of fewer than 7 draws have no other rounding case.)
hot_cold_score(data, number) ==
    LET total == get_total_appearances(data, number)
        recent == get_recent_appearances(data, number)
    IN IF recent * Len(data) > 7 * total THEN 7 * (Scale \div 10)
       ELSE IF recent * Len(data) < 3 * total
                 \/ (total = Len(data) /\ recent = 3) THEN 8 * (Scale \div 10)
       ELSE 5 * (Scale \div 10)

\* features.py:200-226 and predict_adaptive.py:97-107: with more than one
\* appearance, 0.9 when |missing_interval - mean| <= std of the intervals
\* between appearances (compared here as squares times their count squared)
periodicity_score(data, number) ==
    LET rows == RowsWith(data, number)
    IN IF Cardinality(rows) > 1
       THEN LET appearances == Ascending(rows)
                k == Len(appearances) - 1
                intervals == [i \in 1..k |-> appearances[i + 1] - appearances[i]]
                S == SumSeq(intervals)
                Q == SumSeq([i \in 1..k |-> intervals[i] * intervals[i]])
                current_interval == get_missing_intervals(data, number)
            IN IF (k * current_interval - S) * (k * current_interval - S)
                     <= k * Q - S * S
               THEN 9 * (Scale \div 10) ELSE 3 * (Scale \div 10)
       ELSE 5 * (Scale \div 10)

\* features.py:268-283 and predict_adaptive.py:110-117: a number with at most
\* 5 appearances has r_squared 0; the histories here have fewer than 6 draws
trend_score(data, number) == 5 * (Scale \div 10)

\* features.py:323-333 and predict_adaptive.py:121-127: with fewer than 5
\* draws the direction is 'stable'; the histories here have fewer than 5
ma_score(data, number) == 5 * (Scale \div 10)

\* features.py:357-374: the highest count of one number in the draws that
\* follow a draw with `number`
attraction_strength(data, number) ==
    LET counts == {Cardinality({i \in 1..(Len(data) - 1) :
                       /\ number \in SeqToSet(data[i].numbers)
                       /\ next \in SeqToSet(data[i + 1].numbers)}) :
                   next \in Numbers}
    IN CHOOSE c \in counts : \A d \in counts : d <= c

\* predict_adaptive.py:131-135
attraction_score(data, number) ==
    IF attraction_strength(data, number) > 2
    THEN 8 * (Scale \div 10) ELSE 5 * (Scale \div 10)

\* features.py:186-189 and predict_adaptive.py:139-158: the share of the
\* number's interval among all drawn numbers, below 0.15 or above 0.25
distribution_score(data, number) ==
    LET all == Flatten(data)
        count == Cardinality({j \in 1..Len(all) :
                                 IntervalOf(all[j]) = IntervalOf(number)})
    IN IF 100 * count < 15 * Len(all) THEN 8 * (Scale \div 10)
       ELSE IF 100 * count > 25 * Len(all) THEN 3 * (Scale \div 10)
       ELSE 5 * (Scale \div 10)

\* features.py:198-211: pairs of a number of one draw and a number of the
\* next whose difference is diff
adjacent_counts(data, diff) ==
    Cardinality({t \in (2..Len(data)) \X (1..6) \X (1..6) :
                    Abs(data[t[1]].numbers[t[3]] - data[t[1] - 1].numbers[t[2]]) = diff})

\* predict_adaptive.py:161-165: a share above 0.1 of the 36 pairs per step
adjacent_score(data) ==
    LET total_adjacent_opportunities == 36 * (Len(data) - 1)
    IN IF Len(data) >= 2
          /\ (\/ 10 * adjacent_counts(data, 1) > total_adjacent_opportunities
              \/ 10 * adjacent_counts(data, 2) > total_adjacent_opportunities)
       THEN 6 * (Scale \div 10) ELSE 5 * (Scale \div 10)

\* predict_adaptive.py:68: expected_appearances is 0.0 for an empty history
\* and the division raises ZeroDivisionError
NumberScoreRaises(data) == Len(data) = 0

\* predict_adaptive.py:59-168: the weighted sum of the ten partial scores
calculate_number_score(weights, data, number) ==
    LET part == [f \in FeatureNames |->
            CASE f = "total_appearances" -> appearance_score(data, number)
              [] f = "recent_appearances" -> recent_score(data, number)
              [] f = "missing_intervals" -> interval_score(data, number)
              [] f = "hot_cold" -> hot_cold_score(data, number)
              [] f = "periodicity" -> periodicity_score(data, number)
              [] f = "regression_trend" -> trend_score(data, number)
              [] f = "moving_average" -> ma_score(data, number)
              [] f = "attraction_effect" -> attraction_score(data, number)
              [] f = "distribution" -> distribution_score(data, number)
              [] f = "adjacent_correlation" -> adjacent_score(data)]
        term == [f \in FeatureNames |-> FDiv(weights[f] * part[f], Scale)]
    IN SumOver(term, FeatureNames)

\* predict_adaptive.py:327-341: (mean of the number scores * 0.6 +
\* combination_score * 0.4) * 100, in units of 1/Scale percent
calculate_confidence_score(weights, data, numbers, combination_score) ==
    LET individual_scores ==
            [i \in 1..Len(numbers) |-> calculate_number_score(weights, data, numbers[i])]
        avg_individual_score == FDiv(SumSeq(individual_scores), Len(numbers))
    IN (6 * avg_individual_score + 4 * combination_score) * 10

\* Weights the learner produces: the defaults and those after one
\* learn_from_evaluation on a good and on a poor evaluation.
ConfidenceWeights ==
    {default_weights}
       \cup {LearnedWeights(default_weights, InitialCsv, SampleResults[d]) :
                d \in {"d1", "d2"}}

\* Candidates of six numbers: often drawn, once drawn, never drawn.
ConfidenceCandidates ==
    {<<7, 1, 2, 3, 4, 5>>, <<8, 16, 24, 32, 40, 48>>, <<13, 14, 15, 17, 18, 19>>}

\* predict_adaptive.py:327-341 over the predictors and candidates of this
\* section, computed once
ConfidenceScores ==
    {[fn |-> "calculate_confidence_score", data |-> data, weights |-> weights,
      numbers |-> numbers,
      raised |-> IF NumberScoreRaises(data) THEN "ZeroDivisionError" ELSE "none",
      confidence |->
          IF NumberScoreRaises(data) THEN 0
          ELSE calculate_confidence_score(weights, data, numbers,
                   calculate_combination_score(numbers))] :
        data \in Histories, weights \in ConfidenceWeights,
        numbers \in ConfidenceCandidates}

\* main_loop.py:102: calculate_confidence_score(numbers, score) on a
\* predictor with the features of a history
ConfidenceScoreCall ==
    /\ directCall.fn = "none"
    /\ \E call \in ConfidenceScores : directCall' = call
    /\ UNCHANGED <<systemVars, predictCall>>

NextScores == CombinationScoreCall \/ ConfidenceScoreCall \/ ReturnCall

SpecScores == Init /\ [][NextScores]_vars

\* ================================================================ claims
CsvDatesDistinct == Cardinality(Dates(csv)) = Len(csv)
WeightSum(w) == SumOver(w, DOMAIN w)
HasWrite(kind, ok) == \E i \in 1..Len(cycle.writes) : cycle.writes[i] = <<kind, ok>>

\* C1: in every cycle of process_single_draw for a date d, once the learn
\* step has run, the learner updated its weights from the EvaluationResult the
\* evaluator produced for d in that cycle.
C1_LearnerUsesCycleEvaluation ==
    (cycle.learn # "none" /\ cycle.evaluation # {})
        => /\ cycle.learn = "updated"
           /\ {JsonEvaluation(e) : e \in cycle.learnerSaw}
                 = {JsonEvaluation(e) : e \in cycle.evaluation}

\* C2: after every call of apply_weight_adjustments that returns (directly or
\* inside learn_from_evaluation) the weights sum to 1.0, up to the rounding of
\* one unit per two features.
SumTolerance == Cardinality(FeatureNames) \div 2
C3_WeightsWithinClampRange ==
    cycle.learn = "updated"
        => \A f \in DOMAIN learnerWeights :
              WMin <= learnerWeights[f] /\ learnerWeights[f] <= WMax

\* C4: learn_from_evaluation for a date the learner has no EvaluationResult
\* for returns normally (the cycle goes on to its next step), leaves the
\* weights as they were and writes no weights file.
C4_NoEvaluationNoUpdate ==
    [][(pc = "learn" /\ draw_info.date \notin DOMAIN learnerResults)
          => /\ pc' = "record"
             /\ learnerWeights' = learnerWeights
             /\ predictorWeights' = predictorWeights
             /\ weightsFile' = weightsFile
             /\ cycle'.writes = cycle.writes]_vars

\* the learn step returned without an evaluation, in a system whose weights
\* file does not exist yet
C4_Witness ==
    /\ pc = "record"
    /\ cycle.learn = "skipped"
    /\ learnerWeights = cycle.weightsBefore
    /\ ~weightsFile.exists

\* C5: a date is added to the processed dates by process_single_draw only if
\* in that cycle an EvaluationResult was recorded and the learner performed
\* and persisted a weight update.
C5_ProcessedOnlyAfterFullCycle ==
    cycle.result = "done"
        => /\ cycle.date \in processed_dates
           /\ cycle.evaluation # {}
           /\ cycle.learn = "updated"
           /\ HasWrite("weights", TRUE)

\* C6: with distinct draw dates in the history, the run loop never starts a
\* cycle for a date that was recorded as processed before, across invocations
\* and restarts.
C6_ProcessedNeverReprocessed ==
    CsvDatesDistinct => history.reprocessed = {}

\* C7: when a cycle of the run loop fails, the date is reported as skipped and
\* not added to the processed dates, the loop goes on with the batch as it
\* was, and when the loop returns every draw of the batch has been attempted.
C7_FailureSkipsAndContinues ==
    /\ [][(caller = "loop" /\ cycle.result = "none" /\ cycle'.result = "failed")
             => /\ draw_info.date \in history'.skipped
                /\ processed_dates' = processed_dates
                /\ processedFile' = processedFile
                /\ pc' = "loop"
                /\ unprocessed' = unprocessed
                /\ loopIndex' = loopIndex]_vars
    /\ [][(pc = "loop" /\ pc' = "idle")
             => /\ Len(history.attempted) = Len(unprocessed)
                /\ \A i \in 1..Len(unprocessed) :
                      history.attempted[i] = unprocessed[i].date]_vars

\* the loop returned after a batch of two whose first cycle failed and whose
\* second one was recorded
C7_Witness ==
    /\ pc = "idle"
    /\ Len(unprocessed) = 2
    /\ Len(history.attempted) = 2
    /\ history.attempted[1] \in history.skipped
    /\ history.attempted[1] \notin processed_dates
    /\ history.attempted[2] \in processed_dates

\* C8: at the start of every cycle the predictor's weights are the learner's
\* current weights.
C8_PredictorUsesLearnerWeights ==
    pc = "predict" => predictorWeights = learnerWeights

\* a cycle starts after the learner has moved the weights off the defaults
C8_Witness ==
    /\ pc = "predict"
    /\ learnerWeights # default_weights
    /\ predictorWeights = learnerWeights

\* C9: evaluate_predictions on a non-empty batch stores the new result under
\* the date, keeps the results of the other dates, and leaves the evaluation
\* file equal to the serialised in-memory map.
C9_EvaluationStoredAndPersisted ==
    [][(pc = "evaluate" /\ pc' = "learn")
          => /\ DOMAIN evaluatorResults' = DOMAIN evaluatorResults \cup {draw_info.date}
             /\ {evaluatorResults'[draw_info.date]} = cycle'.evaluation
             /\ \A d \in DOMAIN evaluatorResults \ {draw_info.date} :
                   evaluatorResults'[d] = evaluatorResults[d]
             /\ evaluationFile'.exists
             /\ evaluationFile'.doc = JsonResults(evaluatorResults')]_vars

\* C10: every prediction of an EvaluationResult carries the set intersection
\* and differences of the numbers given as predicted and as actual, whatever
\* their order.
C10_HitSets ==
    \A e \in cycle.evaluation :
       /\ Len(e.predictions) = Len(predictions)
       /\ \A i \in 1..Len(e.predictions) :
             LET P == SeqToSet(predictions[i].numbers)
                 A == SeqToSet(draw_info.numbers)
                 pe == e.predictions[i]
             IN /\ pe.hit_count = Cardinality(P \cap A)
                /\ pe.hit_numbers = P \cap A
                /\ pe.missed_numbers = A \ P
                /\ pe.extra_numbers = P \ A
                /\ pe.hit_count + Cardinality(pe.missed_numbers) = Cardinality(A)
                /\ pe.hit_count + Cardinality(pe.extra_numbers) = Cardinality(P)

\* an evaluation of numbers given out of order, with hits, misses and extras
C10_Witness ==
    \E e \in cycle.evaluation :
       \E i \in 1..Len(e.predictions) :
          /\ predictions[i].numbers # sorted(predictions[i].numbers)
          /\ draw_info.numbers # sorted(draw_info.numbers)
          /\ e.predictions[i].hit_count = 3
          /\ Cardinality(e.predictions[i].missed_numbers) = 3
          /\ Cardinality(e.predictions[i].extra_numbers) = 3

\* hit counts of the predictions of an EvaluationResult, by position
HitCounts(e) == [i \in 1..Len(e.predictions) |-> e.predictions[i].hit_count]

\* C11: in every EvaluationResult of a non-empty batch the average is the sum
\* of the hit counts over their number, the best hit count is their maximum,
\* and the histogram counts for each h in 0..6 the predictions with h hits.
C11_SummaryStatistics ==
    \A e \in cycle.evaluation :
       LET hc == HitCounts(e)
           n == Len(e.predictions)
           avg == e.summary.average_hit_count
           hist == e.summary.hit_distribution.counts
       IN /\ n = Len(predictions) /\ n > 0
          /\ avg.num * n = SumOver(hc, DOMAIN hc) * avg.den
          /\ \E i \in DOMAIN hc : hc[i] = e.summary.best_hit_count
          /\ \A i \in DOMAIN hc : hc[i] <= e.summary.best_hit_count
          /\ DOMAIN hist = 0..MaxHits
          /\ \A h \in 0..MaxHits :
                hist[h] = Cardinality({i \in DOMAIN hc : hc[i] = h})
          /\ SumOver(hist, DOMAIN hist) = n

\* an evaluation of three predictions with hit counts 0, 3 and 3
C11_Witness ==
    \E e \in cycle.evaluation :
       /\ Len(e.predictions) = 3
       /\ e.summary.best_hit_count = 3
       /\ e.summary.average_hit_count = [num |-> 6, den |-> 3]
       /\ e.summary.hit_distribution.counts[3] = 2
       /\ e.summary.hit_distribution.counts[0] = 1

\* C12: best_prediction_index is the 1-based position of the first
\* prediction whose hit count is the best hit count, whatever the maximum.
C12_BestIndexIsFirstMaximum ==
    \A e \in cycle.evaluation :
       LET hc == HitCounts(e)
           best == e.summary.best_prediction_index
       IN /\ best \in DOMAIN hc
          /\ hc[best] = e.summary.best_hit_count
          /\ \A i \in DOMAIN hc : i < best => hc[i] < e.summary.best_hit_count

\* number sets of a batch of candidates, by position
NumberSets(batch) == [i \in 1..Len(batch) |-> SeqToSet(batch[i].numbers)]

\* C13: every candidate predict_numbers returns holds exactly 6 different
\* integers of 1..49, all of them from the pool, and no two candidates of the
\* batch have the same set of numbers.
C13_CandidatesWellFormed ==
    predictCall.pc = "returned" =>
       LET sets == NumberSets(predictCall.result)
       IN /\ \A i \in DOMAIN sets :
                /\ Len(predictCall.result[i].numbers) = 6
                /\ Cardinality(sets[i]) = 6
                /\ sets[i] \subseteq 1..49
                /\ sets[i] \subseteq predictCall.candidates
          /\ \A i, j \in DOMAIN sets : i # j => sets[i] # sets[j]

\* a batch of two candidates was returned, after at least one rejected sample
C13_Witness ==
    /\ predictCall.pc = "returned"
    /\ Len(predictCall.result) = 2
    /\ predictCall.attempts > 2

\* C14: on a pool of at least 6 numbers predict_numbers never raises, never
\* makes more than 100 * num_predictions attempts, always returns, and what
\* it returns are the at most num_predictions different candidates it found.
C14_PredictTerminates ==
    /\ [](Cardinality(predictCall.candidates) >= 6 =>
            /\ predictCall.pc # "raised"
            /\ predictCall.attempts <= 100 * predictCall.num_predictions
            /\ predictCall.pc = "returned" =>
                  /\ Len(predictCall.result) <= predictCall.num_predictions
                  /\ Len(predictCall.result) = Len(predictCall.predictions)
                  /\ SeqToSet(predictCall.result) = SeqToSet(predictCall.predictions))
    /\ ((predictCall.pc = "sampling" /\ Cardinality(predictCall.candidates) >= 6)
           ~> predictCall.pc = "returned")

\* the budget of a request for two candidates ran out with one found
C14_Witness ==
    /\ predictCall.pc = "returned"
    /\ predictCall.num_predictions = 2
    /\ predictCall.attempts = 200
    /\ Len(predictCall.result) = 1

\* C15: from a pool of exactly 6 numbers predict_numbers returns exactly one
\* candidate, the whole pool, whatever positive count was requested.
C15_PoolOfSixGivesOne ==
    (/\ predictCall.pc = "returned"
     /\ Cardinality(predictCall.candidates) = 6
     /\ predictCall.num_predictions >= 1)
        => /\ Len(predictCall.result) = 1
           /\ SeqToSet(predictCall.result[1].numbers) = predictCall.candidates

\* six candidates were requested from a pool of six and the budget of 600
\* attempts was used up
C15_Witness ==
    /\ predictCall.pc = "returned"
    /\ Cardinality(predictCall.candidates) = 6
    /\ predictCall.num_predictions = 6
    /\ predictCall.attempts = 600
    /\ Len(predictCall.result) = 1

\* no feature value is collected for the feature in either group
NoFeatureValues(feature_name, evaluation) ==
    \/ ~HasFeatureValue(feature_name)
    \/ (evaluation.actual_result = <<>>
          /\ PredictedGroup(evaluation.predictions) = {})

\* C16: a feature for which analyze_single_feature collects no value in
\* either group gets effectiveness 0.
C16_NoValuesNoEffectiveness ==
    \A evaluation \in cycle.learnerSaw :
       \A f \in DOMAIN cycle.performance :
          NoFeatureValues(f, evaluation) => cycle.performance[f] = 0

\* overall performance 0.7 * best / 6 + 0.3 * average / 6 of an evaluation
\* against a percentage, over the common denominator
PerformanceAbove(evaluation, percent) ==
    LET best == evaluation.summary.best_hit_count
        avg == evaluation.summary.average_hit_count
    IN (7 * best * avg.den + 3 * avg.num) * 10 > 6 * avg.den * percent

\* the delta the four cases give for effectiveness e and learning rate eta
\* (units of 1/Scale), p > 0.5 or not
StatedDelta(e, eta, above) ==
    CASE e > 6000 /\ above -> FDiv(eta * e, Scale)
      [] e > 6000 /\ ~above -> -FDiv(eta * e * 5, Scale * 10)
      [] e <= 6000 /\ above -> -FDiv(eta * (Scale - e) * 3, Scale * 10)
      [] e <= 6000 /\ ~above -> -FDiv(eta * (Scale - e), Scale)

\* C17: calculate_weight_adjustments gives every feature the delta of the
\* four cases; a delta is positive only for e > 0.6 and p > 0.5 and never
\* larger than the learning rate in magnitude.
C17_AdjustmentCases ==
    \A evaluation \in cycle.learnerSaw :
       LET above == PerformanceAbove(evaluation, 50)
       IN /\ DOMAIN cycle.adjustments = DOMAIN cycle.performance
          /\ \A f \in DOMAIN cycle.adjustments :
                LET e == cycle.performance[f]
                    delta == cycle.adjustments[f]
                IN /\ delta = StatedDelta(e, LearningRate, above)
                   /\ delta > 0 => (e > 6000 /\ above)
                   /\ Abs(delta) <= LearningRate

\* effectiveness 0.8 with overall performance 0.6 gave +0.08
C17_Witness ==
    \E evaluation \in cycle.learnerSaw :
       /\ cycle.learn = "adjusted"
       /\ PerformanceAbove(evaluation, 59) /\ ~PerformanceAbove(evaluation, 60)
       /\ evaluation.summary.best_hit_count = 4
       /\ cycle.performance["hot_cold"] = 8000
       /\ cycle.adjustments["hot_cold"] = 800

\* the largest change of one weight in the call
LargestChange(before, after) ==
    LET changes == {Abs(after[f] - before[f]) : f \in DOMAIN after}
    IN CHOOSE c \in changes : \A d \in changes : d <= c

\* C18: whenever learn_from_evaluation finds an EvaluationResult for the
\* date, it applies the adjustments and writes the weights file, whatever the
\* size of the changes; when the write succeeds the file holds the weights
\* the learner has in memory after the call.
C18_UpdatePersisted ==
    (cycle.date # "" /\ cycle.date \in DOMAIN learnerResults)
        => /\ cycle.learn = "updated"
           /\ learnerWeights =
                 apply_weight_adjustments(cycle.weightsBefore, cycle.adjustments)
           /\ Len(cycle.writes) = 1
           /\ cycle.writes[1][1] = "weights"
           /\ cycle.writes[1][2]
                 => weightsFile = [exists |-> TRUE, malformed |-> FALSE,
                                   doc |-> learnerWeights]

\* an update that changed no weight by more than 0.001 overwrote the file
\* of an earlier update
C18_Witness ==
    /\ cycle.date \in DOMAIN learnerResults
    /\ cycle.learn = "updated"
    /\ counters.calls >= 2
    /\ cycle.writes = <<(<<"weights", TRUE>>)>>
    /\ LargestChange(cycle.weightsBefore, learnerWeights) <= 10
    /\ weightsFile.doc = learnerWeights
    /\ weightsFile.doc # cycle.weightsBefore

\* what the claim says load_weights returns for a file
LoadedAsStated(weights, file) ==
    /\ FeatureNames \subseteq DOMAIN weights
    /\ IF file.exists /\ ~file.malformed
       THEN /\ \A f \in DOMAIN file.doc :
                  f \in DOMAIN weights /\ weights[f] = file.doc[f]
            /\ \A f \in FeatureNames \ DOMAIN file.doc :
                  weights[f] = default_weights[f]
       ELSE weights = default_weights

\* C19: load_weights of the learner and of the predictor returns a vector
\* with every name of the default catalogue: stored names keep their stored
\* value, the others get their default, and a missing or unreadable document
\* gives the default vector.
C19_LoadFillsDefaults ==
    cycle.learn = "loaded"
        => /\ LoadedAsStated(learnerWeights, weightsFile)
           /\ LoadedAsStated(predictorWeights, weightsFile)

\* a document holding two names was loaded: both kept, the rest defaulted
C19_Witness ==
    /\ cycle.learn = "loaded"
    /\ weightsFile.exists /\ ~weightsFile.malformed
    /\ DOMAIN weightsFile.doc = {"total_appearances", "hot_cold"}
    /\ learnerWeights["hot_cold"] = 9000
    /\ learnerWeights["total_appearances"] = 0
    /\ learnerWeights["distribution"] = default_weights["distribution"]
    /\ cycle.weightsBefore # learnerWeights

\* C20: what is saved and loaded again equals what was saved: the weights
\* through save_weights and load_weights, and the evaluation results through
\* save_evaluation_results and load_evaluation_results, the keys of
\* hit_distribution included.
C20_RoundTrip ==
    /\ LoadWeights(SaveWeights(weightsFile, learnerWeights, TRUE)) = learnerWeights
    /\ LoadEvaluationResults(
           SaveEvaluationResults(evaluationFile, evaluatorResults, TRUE))
         = evaluatorResults

\* draws since the most recent appearance of num in a history whose latest
\* draw is last; the length of the history when num never appeared
DrawsSinceLast(data, num) ==
    LET rows == {i \in 1..Len(data) : num \in SeqToSet(data[i].numbers)}
    IN IF rows = {} THEN Len(data)
       ELSE Len(data) - (CHOOSE i \in rows : \A j \in rows : j <= i)

\* C21: for a history in chronological order, get_missing_intervals gives
\* for every number of 1..49 the count of draws since its most recent
\* appearance (0 when it is in the latest draw) and the length of the history
\* when it never appeared.
C21_MissingIntervalsSinceLast ==
    directCall.fn = "get_missing_intervals"
        => \A num \in Numbers :
              directCall.missing_intervals[num]
                 = DrawsSinceLast(directCall.data, num)

\* C22: for a history of no draw or of one draw, calculate_all_features
\* returns: none of the feature functions it calls raises.
C22_FeaturesNeverRaise ==
    (directCall.fn = "calculate_all_features" /\ Len(directCall.data) <= 1)
        => /\ directCall.raised = "none"
           /\ \A i \in DOMAIN directCall.functions :
                 directCall.functions[i] = "none"

\* the per-number features the cycle hands to the learner, computed from data
FeaturesOf(data) ==
    [name \in {"total_appearances", "recent_appearances", "missing_intervals"} |->
        [num \in Numbers |-> FeatureValue(name, data, num)]]

\* C23: the features a cycle of process_single_draw uses are those of the
\* draw history as it is in that cycle, the draw appended by
\* add_actual_result included.
C23_FeaturesFromCurrentHistory ==
    pc \in {"predict", "evaluate", "learn", "record"}
        => FeaturesOf(predictorData) = FeaturesOf(csv)

\* C25: for six different numbers of 1..49 calculate_combination_score
\* returns a score of at least 0 and at most 1.
C25_CombinationScoreInUnitRange ==
    directCall.fn = "calculate_combination_score"
        => /\ Cardinality(SeqToSet(directCall.numbers)) = 6
           /\ SeqToSet(directCall.numbers) \subseteq Numbers
           /\ 0 <= directCall.score
           /\ directCall.score <= Scale

\* six numbers in a row, five of them consecutive pairs: the negative
\* partial score of the pairs is outweighed
C25_Witness ==
    /\ directCall.fn = "calculate_combination_score"
    /\ directCall.numbers = <<1, 2, 3, 4, 5, 6>>
    /\ 0 < directCall.score
    /\ directCall.score < Scale \div 2

\* C24: for six different numbers, weights the learner produced and a
\* history of at least one draw, calculate_confidence_score returns a value
\* of at least 0 and at most 100.
C24_ConfidenceInPercentRange ==
    (directCall.fn = "calculate_confidence_score" /\ Len(directCall.data) >= 1)
        => /\ directCall.raised = "none"
           /\ 0 <= directCall.confidence
           /\ directCall.confidence <= 100 * Scale

\* a write of the current cycle failed
WriteFailed == \E i \in 1..Len(cycle.writes) : ~cycle.writes[i][2]

\* C26: a cycle in which a write of the weights, the evaluation results or
\* the processed dates failed does not end as successful, and the values in
\* memory are those the cycle computed.
C26_WriteFailureSurfaced ==
    (WriteFailed /\ cycle.date # "" /\ cycle.result # "none")
        => /\ cycle.result = "failed"
           /\ \A e \in cycle.evaluation : evaluatorResults[cycle.date] = e

\* the kinds of the writes of the current cycle, in their order
WriteKinds == [i \in 1..Len(cycle.writes) |-> cycle.writes[i][1]]

\* the place of a step or of a write in a cycle
StepOrder(step) ==
    CASE step \in {"predict"} -> 1
      [] step \in {"evaluate", "evaluation"} -> 2
      [] step \in {"learn", "weights"} -> 3
      [] step \in {"record", "processed"} -> 4
      [] OTHER -> 5

\* C27: the steps of a cycle follow each other as predict, evaluate, learn,
\* record; the evaluation results, the weights and the processed dates are
\* each written at most once and in that order; a cycle for another draw
\* starts only when none is running.
C27_CycleStepsInOrder ==
    /\ [](\A i, j \in 1..Len(cycle.writes) :
             i < j => StepOrder(WriteKinds[i]) < StepOrder(WriteKinds[j]))
    /\ [][pc # pc' /\ pc \in {"predict", "evaluate", "learn", "record"}
             => \/ StepOrder(pc') = StepOrder(pc) + 1
                \/ pc' \in {"idle", "loop"}]_vars
    /\ [][pc' = "predict" /\ pc \in {"idle", "loop"}
             => cycle'.writes = <<>> /\ predictions' = <<>>]_vars
    /\ [][draw_info' # draw_info /\ draw_info'.date # ""
             => pc \in {"idle", "loop"} /\ pc' = "predict"]_vars

\* a cycle ended after its three writes
C27_Witness ==
    /\ cycle.result = "done"
    /\ WriteKinds = <<"evaluation", "weights", "processed">>

\* C28: run_learning_loop(max_draws=k) with an integer k >= 0 takes at most
\* k draws, the first k unprocessed ones in the order of the history; only
\* with max_draws None it takes all unprocessed draws.
C28_AtMostMaxDraws ==
    \A k \in history.max_draws :
       /\ Len(unprocessed) <= k
       /\ Len(history.attempted) <= k
       /\ \A i \in 1..Len(history.attempted) :
             history.attempted[i] = unprocessed[i].date

\* C29: evaluate_predictions on an empty batch raises and leaves the
\* evaluator as it was: no result is stored or written for the date, and a
\* result the date had before is kept.
C29_EmptyBatchRejected ==
    [][(counters'.calls = counters.calls + 1 /\ predictions' = <<>>)
          => /\ cycle'.result = "failed"
             /\ cycle'.evaluation = {}
             /\ evaluatorResults' = evaluatorResults
             /\ evaluationFile' = evaluationFile]_vars

\* an empty batch was rejected for a date that has a stored result
C29_Witness ==
    /\ predictions = <<>>
    /\ cycle.result = "failed"
    /\ cycle.date \in DOMAIN evaluatorResults
    /\ evaluationFile.exists
    /\ evaluationFile.doc = JsonResults(evaluatorResults)

\* C30: from weights that are not negative, after every call of
\* learn_from_evaluation or apply_weight_adjustments each weight is above 0,
\* the names of the vector are those it had, and the renormalization did not
\* divide by zero.
C30_WeightsStayPositive ==
    (cycle.learn \in {"updated", "raised"}
       /\ \A f \in DOMAIN cycle.weightsBefore : cycle.weightsBefore[f] >= 0)
        => /\ cycle.learn # "raised"
           /\ DOMAIN learnerWeights = DOMAIN cycle.weightsBefore
           /\ \A f \in DOMAIN learnerWeights : learnerWeights[f] > 0

====
